---- MODULE Spec2Model ----
(***************************************************************************)
(* Model of local_sec_pref_csv_uploader.py: one run of process_bindings    *)
(* against a remote platform holding sites, prefix containers and per-site *)
(* bindings.  Every SDK call is one step; its answer (OK, non-OK, conflict,*)
(* raised exception) is chosen by the remote side.                         *)
(***************************************************************************)
EXTENDS Integers, Sequences, FiniteSets, TLC

\* ------------------------------------------------------------- bounds ----
\* data rows read from the CSV in one run
MaxRows == 2
\* columns of the header row after the site_name column
MaxCols == 2
\* bindings the remote side holds before the run
MaxBindings == 1
\* SDK calls that do not succeed in one run
MaxFailures == 2

\* ------------------------------------------------------------ domains ----
None == <<>>
Some(x) == <<x>>

\* the remote site inventory (items of GET sites), read-only for the tool
RemoteSites ==
  << [name |-> "Boston", id |-> "site-1"], [name |-> "Denver", id |-> "site-2"] >>

\* values of the site_name cell of a data row
SiteCells == {"", "Boston", "Denver", "Austin"}

\* prefix-group column names a CSV may carry
GroupNames == {"US-East", "US-West"}

\* names the columns after the site_name column may carry
HeaderNames == GroupNames \cup {"hostname", ""}

\* a cell is a sequence of tokens: " " is whitespace, anything else is text
CidrA == "10.0.0.0/24"
CidrB == "10.0.1.0/24"
CidrC == "192.168.0.0/24"
Cells == { <<>>, <<" ">>, <<CidrA>>, <<" ", CidrA, " ">>, <<CidrB>> }

\* the identifier the remote side gives the container of a name
ContainerId(name) == "pc-" \o name

\* what existing bindings may look like on the remote side before the run
BindingTemplates ==
  { [ipv4_prefixes |-> {<<CidrA>>}, ipv6_prefixes |-> {}, tags |-> None,
     etag |-> None, schema |-> None],
    [ipv4_prefixes |-> {<<CidrB>>, <<CidrC>>}, ipv6_prefixes |-> {},
     tags |-> Some(<<>>), etag |-> Some(7), schema |-> None],
    [ipv4_prefixes |-> {<<CidrC>>}, ipv6_prefixes |-> {"2001:db8::/32"},
     tags |-> Some(<<"prod">>), etag |-> Some(3), schema |-> Some(2)],
    [ipv4_prefixes |-> {}, ipv6_prefixes |-> {"2001:db8::/32"},
     tags |-> Some(<<>>), etag |-> None, schema |-> Some(2)] }

\* ------------------------------------------------------ pure helpers -----
\* str.strip(): drop leading and trailing whitespace tokens
RECURSIVE LStrip(_)
LStrip(s) == IF s # <<>> /\ Head(s) = " " THEN LStrip(Tail(s)) ELSE s

RECURSIVE RStrip(_)
RStrip(s) ==
  IF s # <<>> /\ s[Len(s)] = " " THEN RStrip(SubSeq(s, 1, Len(s) - 1)) ELSE s

\* a variant of strip that keeps the whitespace
strip_Keep(s) == s

strip(s) == RStrip(LStrip(s))

Range(s) == { s[i] : i \in 1..Len(s) }

\* dict.get on a map kept as a function: None when the key is absent
Get(map, key) == IF key \in DOMAIN map THEN Some(map[key]) ELSE None

\* map[key] = value
Put(map, key, value) ==
  [k \in (DOMAIN map) \cup {key} |-> IF k = key THEN value ELSE map[k]]

EmptyMap == [k \in {} |-> k]

\* building a name -> id map from listed items; a later item overwrites
RECURSIVE ItemsToMap(_, _)
ItemsToMap(items, map) ==
  IF items = <<>> THEN map
  ELSE ItemsToMap(Tail(items), Put(map, Head(items).name, Head(items).id))

\* line 80: the reserved column names
ignore_cols == <<"site_name", "SDK", "serial_number", "hostname">>

\* line 81: [h for h in all_headers if h and h not in ignore_cols]
IsTarget(h) == h # "" /\ h \notin Range(ignore_cols)

target_of(all_headers) == SelectSeq(all_headers, IsTarget)

\* csv.DictReader row: a later column of the same name overwrites
RowGet(all_headers, cells, key) ==
  LET cols == { i \in 1..Len(all_headers) : all_headers[i] = key }
  IN  IF cols = {} THEN None
      ELSE Some(cells[CHOOSE i \in cols : \A j \in cols : j <= i])

\* ---- pending_data: an insertion-ordered dict of insertion-ordered dicts --
\* kept as a sequence of [key, value] entries
Keys(d) == { d[i].key : i \in 1..Len(d) }

Index(d, key) == CHOOSE i \in 1..Len(d) : d[i].key = key

Lookup(d, key) == d[Index(d, key)].value

\* defaultdict access followed by a store: new keys go last
Store(d, key, value) ==
  IF key \in Keys(d)
  THEN [d EXCEPT ![Index(d, key)].value = value]
  ELSE Append(d, [key |-> key, value |-> value])

\* lines 88-91: pending_data[site_name][header].add(cidr.strip())
AddCidr(pd, site_name, header, cidr) ==
  LET inner == IF site_name \in Keys(pd) THEN Lookup(pd, site_name) ELSE <<>>
      old   == IF header \in Keys(inner) THEN Lookup(inner, header) ELSE {}
  IN  Store(pd, site_name, Store(inner, header, old \cup {cidr}))

\* lines 88-91 over the target columns of one row, in header order
RECURSIVE AggregateRow(_, _, _, _, _)
AggregateRow(pd, site_name, all_headers, cells, targets) ==
  IF targets = <<>> THEN pd
  ELSE LET header == Head(targets)
           cidr   == RowGet(all_headers, cells, header)
           next   == IF cidr # None /\ cidr[1] # <<>> /\ strip(cidr[1]) # <<>>
                     THEN AddCidr(pd, site_name, header, strip(cidr[1]))
                     ELSE pd
       IN  AggregateRow(next, site_name, all_headers, cells, Tail(targets))

\* ---------------------------------------------------------- the state ----
VARIABLES
  pc,                   \* where process_bindings stands
  site_id_map,          \* line 63
  container_map,        \* line 64, extended at line 110
  all_headers,          \* line 74
  target_prefixes,      \* lines 67 and 81
  pending_data,         \* line 66
  rows_read,            \* rows the reader has yielded so far
  p_idx,                \* position of the loop of line 99
  site_idx,             \* position of the loop of line 117
  pair_idx,             \* position of the loop of line 133
  current_bindings_map, \* line 124
  remote_containers,    \* remote side: container name -> id
  remote_bindings,      \* remote side: the bindings, in listing order
  bindings0,            \* the remote bindings when the run started
  containers0,          \* the remote container names when the run started
  calls,                \* every SDK call of the run, in order, with its answer
  out,                  \* the result lines printed by the run
  failures,             \* calls of the run that did not succeed
  rows_seen             \* the rows the reader has yielded, when they are recorded

vars == << pc, site_id_map, container_map, all_headers, target_prefixes,
           pending_data, rows_read, p_idx, site_idx, pair_idx,
           current_bindings_map, remote_containers, remote_bindings,
           bindings0, containers0, calls, out, failures, rows_seen >>

local == << site_id_map, container_map, all_headers, target_prefixes,
            pending_data, rows_read, p_idx, site_idx, pair_idx,
            current_bindings_map >>

\* ------------------------------------------------------ remote side ------
SiteIds == { RemoteSites[i].id : i \in 1..Len(RemoteSites) }

\* the (site, container name) pairs in the order the remote side lists them
PairOrder ==
  << <<"site-1", "US-East">>, <<"site-1", "US-West">>,
     <<"site-2", "US-East">>, <<"site-2", "US-West">> >>

\* the bindings of a choice (pair -> template or nothing), ids in list order
RECURSIVE BindingsOf(_, _, _)
BindingsOf(choice, i, acc) ==
  IF i > Len(PairOrder) THEN acc
  ELSE LET p == PairOrder[i]
           t == choice[p]
       IN  IF t = None THEN BindingsOf(choice, i + 1, acc)
           ELSE BindingsOf(choice, i + 1,
                  Append(acc, [id |-> Len(acc) + 1, site_id |-> p[1],
                               prefix_id |-> ContainerId(p[2]),
                               ipv4_prefixes |-> t[1].ipv4_prefixes,
                               ipv6_prefixes |-> t[1].ipv6_prefixes,
                               tags |-> t[1].tags, etag |-> t[1].etag,
                               schema |-> t[1].schema]))

\* a binding exists only for a container that exists
InitialBindings(containers) ==
  { BindingsOf(choice, 1, <<>>) :
      choice \in { c \in [Range(PairOrder) -> {None} \cup {Some(t) : t \in BindingTemplates}] :
                     /\ \A p \in Range(PairOrder) : p[2] \notin containers => c[p] = None
                     /\ Cardinality({ p \in Range(PairOrder) : c[p] # None }) <= MaxBindings } }

\* GET /sites/{site_id}/ngfwsecuritypolicylocalprefixes: the items of a site
SiteBindings(bindings, site_id) ==
  SelectSeq(bindings, LAMBDA b : b.site_id = site_id)

\* POST container answered OK: the container now exists
RemoteCreateContainer(containers, name) == Put(containers, name, ContainerId(name))

\* POST binding answered OK: a new binding of the site, as the payload says
RemoteCreateBinding(bindings, site_id, payload) ==
  Append(bindings, [id |-> Len(bindings) + 1, site_id |-> site_id,
                    prefix_id |-> payload.prefix_id,
                    ipv4_prefixes |-> payload.ipv4_prefixes,
                    ipv6_prefixes |-> payload.ipv6_prefixes,
                    tags |-> Some(payload.tags),
                    etag |-> Some(1), schema |-> Some(1)])

\* PUT binding answered OK: the resource now carries the payload's values
RemoteUpdateBinding(bindings, site_id, binding_id, payload) ==
  [i \in 1..Len(bindings) |->
     IF bindings[i].site_id = site_id /\ bindings[i].id = binding_id
     THEN [bindings[i] EXCEPT !.ipv4_prefixes = payload.ipv4_prefixes,
                              !.ipv6_prefixes = payload.ipv6_prefixes,
                              !.tags = Some(payload.tags)]
     ELSE bindings[i]]

\* --------------------------------------------------------------- log -----
Call(op, site_id, name, binding_id, payload, status) ==
  [op |-> op, site_id |-> site_id, name |-> name, binding_id |-> binding_id,
   payload |-> payload, status |-> status]

Line(msg, site, subject, status) ==
  [msg |-> msg, site |-> site, subject |-> subject, status |-> status]

\* a call that did not succeed uses up the run's failure budget
Budget(status) ==
  IF status = "ok" THEN failures' = failures
  ELSE failures < MaxFailures /\ failures' = failures + 1

\* ------------------------------------------------------------- Init ------
Init ==
  /\ pc = "get_site_map"
  /\ site_id_map = EmptyMap
  /\ container_map = EmptyMap
  /\ all_headers = <<>>
  /\ target_prefixes = <<>>
  /\ pending_data = <<>>
  /\ rows_read = 0
  /\ p_idx = 1
  /\ site_idx = 1
  /\ pair_idx = 1
  /\ current_bindings_map = EmptyMap
  /\ \E names \in SUBSET GroupNames :
       /\ remote_containers = [n \in names |-> ContainerId(n)]
       /\ remote_bindings \in InitialBindings(names)
  /\ bindings0 = remote_bindings
  /\ containers0 = DOMAIN remote_containers
  /\ calls = <<>>
  /\ out = <<>>
  /\ failures = 0
  /\ rows_seen = None

\* ------------------------------------------- lines 25-34: get_site_map ---
\* a non-OK answer ends the process (sys.exit); a raised exception is not caught
get_site_map ==
  /\ pc = "get_site_map"
  /\ \E status \in {"ok", "fail", "exc"} :
       /\ Budget(status)
       /\ calls' = Append(calls, Call("GET sites", "", "", 0, None, status))
       /\ CASE status = "ok" ->
                 /\ site_id_map' = ItemsToMap(RemoteSites, EmptyMap)
                 /\ pc' = "get_containers"
                 /\ out' = out
            [] status = "fail" ->
                 /\ site_id_map' = site_id_map
                 /\ pc' = "exited"
                 /\ out' = Append(out, Line("ERROR: Could not retrieve sites", "", "", status))
            [] OTHER ->
                 /\ site_id_map' = site_id_map
                 /\ pc' = "crashed"
                 /\ out' = out
  /\ UNCHANGED << container_map, all_headers, target_prefixes, pending_data,
                  rows_read, p_idx, site_idx, pair_idx, current_bindings_map,
                  remote_containers, remote_bindings, bindings0, containers0, rows_seen >>

\* the items of GET ngfwsecuritypolicylocalprefixes
ContainerItems(containers) ==
  { [name |-> n, id |-> containers[n]] : n \in DOMAIN containers }

\* a variant of get_ngfw_prefix_containers that goes on with an empty map when
\* the listing fails
get_ngfw_prefix_containers_NoExit ==
  /\ pc = "get_containers"
  /\ \E status \in {"ok", "fail", "exc"} :
       /\ Budget(status)
       /\ calls' = Append(calls, Call("GET containers", "", "", 0, None, status))
       /\ container_map' =
            IF status = "ok"
            THEN [n \in DOMAIN remote_containers |-> remote_containers[n]]
            ELSE container_map
       /\ pc' = "read_header"
       /\ out' = IF status = "fail"
                 THEN Append(out, Line("ERROR: Could not retrieve prefix containers", "", "", status))
                 ELSE out
  /\ UNCHANGED << site_id_map, all_headers, target_prefixes, pending_data,
                  rows_read, p_idx, site_idx, pair_idx, current_bindings_map,
                  remote_containers, remote_bindings, bindings0, containers0, rows_seen >>

\* ------------------------------ lines 36-54: get_ngfw_prefix_containers ---
get_ngfw_prefix_containers ==
  /\ pc = "get_containers"
  /\ \E status \in {"ok", "fail", "exc"} :
       /\ Budget(status)
       /\ calls' = Append(calls, Call("GET containers", "", "", 0, None, status))
       /\ CASE status = "ok" ->
                 /\ container_map' =
                      [n \in { i.name : i \in ContainerItems(remote_containers) } |->
                         (CHOOSE i \in ContainerItems(remote_containers) : i.name = n).id]
                 /\ pc' = "read_header"
                 /\ out' = out
            [] status = "fail" ->
                 /\ container_map' = container_map
                 /\ pc' = "exited"
                 /\ out' = Append(out, Line("ERROR: Could not retrieve prefix containers", "", "", status))
            [] OTHER ->
                 /\ container_map' = container_map
                 /\ pc' = "crashed"
                 /\ out' = out
  /\ UNCHANGED << site_id_map, all_headers, target_prefixes, pending_data,
                  rows_read, p_idx, site_idx, pair_idx, current_bindings_map,
                  remote_containers, remote_bindings, bindings0, containers0, rows_seen >>

\* ------------------------------------------------ the CSV file ----------
\* the header rows a CSV may have: site_name, then up to MaxCols names
HeaderRows ==
  { <<"site_name">> \o t : t \in UNION { [1..n -> HeaderNames] : n \in 0..MaxCols } }

SiteCols(h) == { i \in 1..Len(h) : h[i] = "site_name" }

TargetCols(h) == { i \in 1..Len(h) : IsTarget(h[i]) }

\* a data row under header h: a site name in each site_name column, a cell in
\* each prefix-group column (the other columns are never read)
RowOf(h, sc, gc) ==
  [i \in 1..Len(h) |->
     IF i \in DOMAIN sc THEN sc[i] ELSE IF i \in DOMAIN gc THEN gc[i] ELSE <<>>]

\* a variant of FileNotFound that reports the error and goes on
FileNotFound_GoesOn ==
  /\ pc = "read_header"
  /\ out' = Append(out, Line("ERROR: File not found", "", "", ""))
  /\ pc' = "verify"
  /\ UNCHANGED << local, remote_containers, remote_bindings, bindings0, containers0, rows_seen, calls, failures >>

\* lines 93-95: open() raises FileNotFoundError
FileNotFound ==
  /\ pc = "read_header"
  /\ out' = Append(out, Line("ERROR: File not found", "", "", ""))
  /\ pc' = "done"
  /\ UNCHANGED << local, remote_containers, remote_bindings, bindings0, containers0, rows_seen, calls, failures >>

\* lines 74-77: reader.fieldnames is None (empty file) or [] (blank first line)
HeaderEmpty ==
  /\ pc = "read_header"
  /\ out' = Append(out, Line("ERROR: CSV empty", "", "", ""))
  /\ pc' = "done"
  /\ UNCHANGED << local, remote_containers, remote_bindings, bindings0, containers0, rows_seen, calls, failures >>

\* lines 74-82: the header row is read and the prefix columns are detected
ReadHeader ==
  /\ pc = "read_header"
  /\ \E h \in HeaderRows :
       /\ all_headers' = h
       /\ target_prefixes' = target_of(h)
  /\ pc' = "read_rows"
  /\ UNCHANGED << site_id_map, container_map, pending_data, rows_read, p_idx,
                  site_idx, pair_idx, current_bindings_map, remote_containers,
                  remote_bindings, bindings0, containers0, rows_seen, calls, out, failures >>

\* lines 85-86: the row is skipped when its site name is missing or blank
RowSkipped(site_name) == site_name = None \/ site_name[1] = ""

\* line 84: the dict csv.DictReader yields for a row, by column name
RowDict(hdr, cells) == [k \in Range(hdr) |-> RowGet(hdr, cells, k)[1]]

\* lines 84-91: one data row is aggregated
ReadRow ==
  /\ pc = "read_rows"
  /\ rows_read < MaxRows
  /\ \E sc \in [SiteCols(all_headers) -> SiteCells],
        gc \in [TargetCols(all_headers) -> Cells] :
       LET cells     == RowOf(all_headers, sc, gc)
           site_name == RowGet(all_headers, cells, "site_name")
       IN  /\ pending_data' =
                IF RowSkipped(site_name) THEN pending_data
                ELSE AggregateRow(pending_data, site_name[1], all_headers, cells,
                                  target_prefixes)
           /\ rows_seen' =
                IF rows_seen = None THEN None
                ELSE Some(Append(rows_seen[1], RowDict(all_headers, cells)))
  /\ rows_read' = rows_read + 1
  /\ UNCHANGED << pc, site_id_map, container_map, all_headers, target_prefixes,
                  p_idx, site_idx, pair_idx, current_bindings_map,
                  remote_containers, remote_bindings, bindings0, containers0, calls, out, failures >>

\* line 84: the reader is exhausted
EndOfRows ==
  /\ pc = "read_rows"
  /\ pc' = "verify"
  /\ UNCHANGED << local, remote_containers, remote_bindings, bindings0, containers0, rows_seen, calls, out, failures >>

\* ------------------------------------ lines 97-113: VERIFY CONTAINERS -----
\* a variant of Missing without the membership test: always create
Missing_Always(p_name, map) == TRUE

\* line 100: is a container to be created for this name
Missing(p_name, map) == p_name \notin DOMAIN map

\* line 100 false: the name has a container
ContainerPresent ==
  /\ pc = "verify"
  /\ p_idx <= Len(target_prefixes)
  /\ ~Missing(target_prefixes[p_idx], container_map)
  /\ p_idx' = p_idx + 1
  /\ UNCHANGED << pc, site_id_map, container_map, all_headers, target_prefixes,
                  pending_data, rows_read, site_idx, pair_idx, current_bindings_map,
                  remote_containers, remote_bindings, bindings0, containers0, rows_seen, calls, out, failures >>

\* lines 101-113: the container is created; a raised exception is not caught
CreateContainer ==
  /\ pc = "verify"
  /\ p_idx <= Len(target_prefixes)
  /\ Missing(target_prefixes[p_idx], container_map)
  /\ LET p_name == target_prefixes[p_idx]
     IN  \E status \in {"ok", "fail", "exc"} :
           /\ Budget(status)
           /\ calls' = Append(calls, Call("POST container", "", p_name, 0, None, status))
           /\ IF status = "ok"
              THEN /\ remote_containers' = RemoteCreateContainer(remote_containers, p_name)
                   /\ container_map' = Put(container_map, p_name, remote_containers'[p_name])
                   /\ out' = Append(out, Line("SUCCESS. ID", "", p_name, status))
                   /\ pc' = pc
                   /\ p_idx' = p_idx + 1
              ELSE /\ UNCHANGED << remote_containers, container_map >>
                   /\ IF status = "fail"
                      THEN /\ out' = Append(out, Line("FAILED to create container", "", p_name, status))
                           /\ pc' = pc
                           /\ p_idx' = p_idx + 1
                      ELSE /\ out' = out
                           /\ pc' = "crashed"
                           /\ p_idx' = p_idx
  /\ UNCHANGED << site_id_map, all_headers, target_prefixes, pending_data, rows_read,
                  site_idx, pair_idx, current_bindings_map, remote_bindings, bindings0, containers0, rows_seen >>

\* lines 99, 117: the loop over target_prefixes ends; without aggregated data
\* process_bindings returns
EndVerify ==
  /\ pc = "verify"
  /\ p_idx > Len(target_prefixes)
  /\ pc' = IF pending_data = <<>> THEN "done" ELSE "sites"
  /\ UNCHANGED << local, remote_containers, remote_bindings, bindings0, containers0, rows_seen, calls, out, failures >>

\* ------------------------------- lines 115-204: PROCESS SITES (sync) -----
\* lines 128-129: the fetched items keyed by prefix_id; a later item overwrites
RECURSIVE BindingsMap(_, _)
BindingsMap(items, map) ==
  IF items = <<>> THEN map
  ELSE BindingsMap(Tail(items), Put(map, Head(items).prefix_id, Head(items)))

\* lines 118-119: site_id_map.get(site_name), None when the name is unknown
SiteId(site_name, map) == Get(map, site_name)

\* a variant of merged_ips that overwrites: the CSV CIDRs alone
merged_ips_Overwrite(current_ips, new_cidrs_set) == new_cidrs_set

\* line 146: current_ips.union(new_cidrs_set)
merged_ips(current_ips, new_cidrs_set) == current_ips \cup new_cidrs_set

\* a variant of NeedsUpdate that always updates
NeedsUpdate_Always(merged, current_ips) == TRUE

\* line 149: len(merged_ips) > len(current_ips)
NeedsUpdate(merged, current_ips) == Cardinality(merged) > Cardinality(current_ips)

\* lines 153-155: existing_binding.get('tags'), [] when absent or null
existing_tags(existing_binding) ==
  IF existing_binding.tags = None THEN <<>> ELSE existing_binding.tags[1]

\* a variant of UpdatePayload that never sends the etag
UpdatePayload_NoEtag(existing_binding, container_id, merged) ==
  [id |-> Some(existing_binding.id), prefix_id |-> container_id,
   ipv4_prefixes |-> merged, ipv6_prefixes |-> {},
   tags |-> IF existing_binding.tags = None THEN <<>> ELSE existing_binding.tags[1],
   etag |-> None, schema |-> existing_binding.schema]

\* a variant of UpdatePayload that sends back the fetched CIDRs, not the merged ones
UpdatePayload_Stale(existing_binding, container_id, merged) ==
  [id |-> Some(existing_binding.id), prefix_id |-> container_id,
   ipv4_prefixes |-> existing_binding.ipv4_prefixes, ipv6_prefixes |-> {},
   tags |-> existing_tags(existing_binding),
   etag |-> existing_binding.etag, schema |-> existing_binding.schema]

\* lines 161-173: the PUT payload; an absent etag / schema is left out
UpdatePayload(existing_binding, container_id, merged) ==
  [id |-> Some(existing_binding.id), prefix_id |-> container_id,
   ipv4_prefixes |-> merged, ipv6_prefixes |-> {},
   tags |-> existing_tags(existing_binding),
   etag |-> existing_binding.etag, schema |-> existing_binding.schema]

\* lines 191-196: the POST payload
CreatePayload(container_id, new_cidrs_set) ==
  [id |-> None, prefix_id |-> container_id, ipv4_prefixes |-> new_cidrs_set,
   ipv6_prefixes |-> {}, tags |-> <<>>, etag |-> None, schema |-> None]

\* lines 179-184: what is printed for the answer to the PUT
UpdateResult(status) ==
  CASE status = "ok"  -> "SUCCESS: Updated"
    [] status = "exc" -> "ERROR calling PUT"
    [] OTHER          -> "FAILED Update"

\* lines 199-204: what is printed for the answer to the POST
CreateResult(status) ==
  CASE status = "ok"  -> "SUCCESS: Created"
    [] status = "exc" -> "ERROR calling POST"
    [] OTHER          -> "FAILED Create"

\* the entry of pending_data the site loop stands at, and its pair
CurSite == pending_data[site_idx]
CurPair == CurSite.value[pair_idx]

\* line 117: the site loop moves on; after the last site process_bindings returns
NextSite ==
  /\ site_idx' = site_idx + 1
  /\ pc' = IF site_idx < Len(pending_data) THEN "sites" ELSE "done"

\* line 133: the pair loop moves on; after the site's last pair, the site loop does
NextPair ==
  IF pair_idx < Len(CurSite.value)
  THEN pair_idx' = pair_idx + 1 /\ UNCHANGED << pc, site_idx >>
  ELSE pair_idx' = 1 /\ NextSite

\* a variant of SkipSite that leaves the site loop at an unknown site name
SkipSite_Break ==
  /\ pc = "sites"
  /\ site_idx <= Len(pending_data)
  /\ SiteId(pending_data[site_idx].key, site_id_map) = None
  /\ site_idx' = site_idx + 1
  /\ pc' = "done"
  /\ UNCHANGED << site_id_map, container_map, all_headers, target_prefixes,
                  pending_data, rows_read, p_idx, pair_idx, current_bindings_map,
                  remote_containers, remote_bindings, bindings0, containers0, rows_seen, calls, out, failures >>

\* lines 118-120: the site name is unknown, the site is skipped
SkipSite ==
  /\ pc = "sites"
  /\ site_idx <= Len(pending_data)
  /\ SiteId(CurSite.key, site_id_map) = None
  /\ NextSite
  /\ UNCHANGED << site_id_map, container_map, all_headers, target_prefixes,
                  pending_data, rows_read, p_idx, pair_idx, current_bindings_map,
                  remote_containers, remote_bindings, bindings0, containers0, rows_seen, calls, out, failures >>

\* lines 122-131: the site's bindings are fetched once; a non-OK answer and a
\* raised exception both leave current_bindings_map empty
FetchBindings ==
  /\ pc = "sites"
  /\ site_idx <= Len(pending_data)
  /\ SiteId(CurSite.key, site_id_map) # None
  /\ LET site_id == SiteId(CurSite.key, site_id_map)[1]
     IN  \E status \in {"ok", "fail", "exc"} :
           /\ Budget(status)
           /\ calls' = Append(calls, Call("GET bindings", site_id, "", 0, None, status))
           /\ current_bindings_map' =
                IF status = "ok"
                THEN BindingsMap(SiteBindings(remote_bindings, site_id), EmptyMap)
                ELSE EmptyMap
           /\ out' = IF status = "exc"
                     THEN Append(out, Line("Warning: Could not fetch existing bindings",
                                           CurSite.key, "", status))
                     ELSE out
  /\ pc' = "pairs"
  /\ pair_idx' = 1
  /\ UNCHANGED << site_id_map, container_map, all_headers, target_prefixes,
                  pending_data, rows_read, p_idx, site_idx, remote_containers,
                  remote_bindings, bindings0, containers0, rows_seen >>

InPair == pc = "pairs"

CurSiteId == SiteId(CurSite.key, site_id_map)[1]
CurContainerId == Get(container_map, CurPair.key)
CurExisting == Get(current_bindings_map, CurContainerId[1])

\* a variant of PairUnresolved that creates the missing container on the spot
PairUnresolved_Lazy ==
  /\ InPair
  /\ CurContainerId = None
  /\ calls' = Append(calls, Call("POST container", "", CurPair.key, 0, None, "ok"))
  /\ remote_containers' = RemoteCreateContainer(remote_containers, CurPair.key)
  /\ container_map' = Put(container_map, CurPair.key, ContainerId(CurPair.key))
  /\ out' = Append(out, Line("SUCCESS. ID", "", CurPair.key, "ok"))
  /\ UNCHANGED << pc, site_id_map, all_headers, target_prefixes, pending_data,
                  rows_read, p_idx, site_idx, pair_idx, current_bindings_map,
                  remote_bindings, bindings0, containers0, rows_seen, failures >>

\* lines 134-137: the group name has no container id
PairUnresolved ==
  /\ InPair
  /\ CurContainerId = None
  /\ out' = Append(out, Line("ERROR: ID not found", CurSite.key, CurPair.key, ""))
  /\ NextPair
  /\ UNCHANGED << site_id_map, container_map, all_headers, target_prefixes,
                  pending_data, rows_read, p_idx, current_bindings_map,
                  remote_containers, remote_bindings, bindings0, containers0, rows_seen, calls, failures >>

\* lines 141-149, 185-186: a fetched binding holds every CSV CIDR already
UpToDate ==
  /\ InPair
  /\ CurContainerId # None
  /\ CurExisting # None
  /\ LET current_ips == CurExisting[1].ipv4_prefixes
     IN  ~NeedsUpdate(merged_ips(current_ips, CurPair.value), current_ips)
  /\ out' = Append(out, Line("up to date", CurSite.key, CurPair.key, ""))
  /\ NextPair
  /\ UNCHANGED << site_id_map, container_map, all_headers, target_prefixes,
                  pending_data, rows_read, p_idx, current_bindings_map,
                  remote_containers, remote_bindings, bindings0, containers0, rows_seen, calls, failures >>

\* a variant of UpdateBinding that deletes the fetched binding and creates a
\* new one with the merged CIDRs
UpdateBinding_Recreate ==
  /\ InPair
  /\ CurContainerId # None
  /\ CurExisting # None
  /\ LET existing_binding == CurExisting[1]
         current_ips == existing_binding.ipv4_prefixes
         merged      == merged_ips(current_ips, CurPair.value)
         payload     == CreatePayload(CurContainerId[1], merged)
     IN  /\ NeedsUpdate(merged, current_ips)
         /\ calls' = calls \o
              << Call("DELETE binding", CurSiteId, CurPair.key, existing_binding.id, None, "ok"),
                 Call("POST binding", CurSiteId, CurPair.key, 0, Some(payload), "ok") >>
         /\ remote_bindings' =
              RemoteCreateBinding(
                SelectSeq(remote_bindings, LAMBDA b : b.id # existing_binding.id),
                CurSiteId, payload)
         /\ out' = Append(out, Line(UpdateResult("ok"), CurSite.key, CurPair.key, "ok"))
  /\ NextPair
  /\ UNCHANGED << site_id_map, container_map, all_headers, target_prefixes,
                  pending_data, rows_read, p_idx, current_bindings_map,
                  remote_containers, bindings0, containers0, rows_seen, failures >>

\* lines 141-184: the fetched binding is updated with the merged CIDRs
UpdateBinding ==
  /\ InPair
  /\ CurContainerId # None
  /\ CurExisting # None
  /\ LET existing_binding == CurExisting[1]
         binding_id  == existing_binding.id
         current_ips == existing_binding.ipv4_prefixes
         merged      == merged_ips(current_ips, CurPair.value)
         payload     == UpdatePayload(existing_binding, CurContainerId[1], merged)
     IN  /\ NeedsUpdate(merged, current_ips)
         /\ \E status \in {"ok", "fail", "conflict", "exc"} :
              /\ Budget(status)
              /\ calls' = Append(calls, Call("PUT binding", CurSiteId, CurPair.key,
                                             binding_id, Some(payload), status))
              /\ remote_bindings' =
                   IF status = "ok"
                   THEN RemoteUpdateBinding(remote_bindings, CurSiteId, binding_id, payload)
                   ELSE remote_bindings
              /\ out' = Append(out,
                   Line(UpdateResult(status), CurSite.key, CurPair.key, status))
  /\ NextPair
  /\ UNCHANGED << site_id_map, container_map, all_headers, target_prefixes,
                  pending_data, rows_read, p_idx, current_bindings_map,
                  remote_containers, bindings0, containers0, rows_seen >>

\* the remote side holds a binding of the container at the site
RemoteHas(bindings, site_id, prefix_id) ==
  \E i \in 1..Len(bindings) :
     bindings[i].site_id = site_id /\ bindings[i].prefix_id = prefix_id

\* a variant of CreateBinding in which a raised exception is not caught
CreateBinding_Uncaught ==
  /\ InPair
  /\ CurContainerId # None
  /\ CurExisting = None
  /\ LET payload == CreatePayload(CurContainerId[1], CurPair.value)
     IN  \E status \in {"ok", "fail", "exc"} :
           /\ Budget(status)
           /\ calls' = Append(calls, Call("POST binding", CurSiteId, CurPair.key, 0,
                                          Some(payload), status))
           /\ remote_bindings' =
                IF status = "ok"
                THEN RemoteCreateBinding(remote_bindings, CurSiteId, payload)
                ELSE remote_bindings
           /\ IF status = "exc"
              THEN out' = out /\ pc' = "crashed" /\ UNCHANGED << site_idx, pair_idx >>
              ELSE /\ out' = Append(out,
                          Line(CreateResult(status), CurSite.key, CurPair.key, status))
                   /\ NextPair
  /\ UNCHANGED << site_id_map, container_map, all_headers, target_prefixes,
                  pending_data, rows_read, p_idx, current_bindings_map,
                  remote_containers, bindings0, containers0, rows_seen >>

\* lines 188-204: no fetched binding, a new one is created; the remote side
\* answers a create for a pair it already holds with a conflict or accepts it
CreateBinding ==
  /\ InPair
  /\ CurContainerId # None
  /\ CurExisting = None
  /\ LET payload == CreatePayload(CurContainerId[1], CurPair.value)
     IN  \E status \in {"ok", "fail", "conflict", "exc"} :
           /\ status = "conflict" => RemoteHas(remote_bindings, CurSiteId, CurContainerId[1])
           /\ Budget(status)
           /\ calls' = Append(calls, Call("POST binding", CurSiteId, CurPair.key, 0,
                                          Some(payload), status))
           /\ remote_bindings' =
                IF status = "ok"
                THEN RemoteCreateBinding(remote_bindings, CurSiteId, payload)
                ELSE remote_bindings
           /\ out' = Append(out,
                Line(CreateResult(status), CurSite.key, CurPair.key, status))
  /\ NextPair
  /\ UNCHANGED << site_id_map, container_map, all_headers, target_prefixes,
                  pending_data, rows_read, p_idx, current_bindings_map,
                  remote_containers, bindings0, containers0, rows_seen >>

\* ------------------------------------------------------------- Next ------
Next ==
  \/ get_site_map
  \/ get_ngfw_prefix_containers
  \/ FileNotFound
  \/ HeaderEmpty
  \/ ReadHeader
  \/ ReadRow
  \/ EndOfRows
  \/ ContainerPresent
  \/ CreateContainer
  \/ EndVerify
  \/ SkipSite
  \/ FetchBindings
  \/ PairUnresolved
  \/ UpToDate
  \/ UpdateBinding
  \/ CreateBinding

Spec == Init /\ [][Next]_vars

\* ---- the same run with its rows recorded, against a remote side that holds
\* every container and no binding and answers every call OK
InitCsv ==
  /\ pc = "get_site_map"
  /\ site_id_map = EmptyMap
  /\ container_map = EmptyMap
  /\ all_headers = <<>>
  /\ target_prefixes = <<>>
  /\ pending_data = <<>>
  /\ rows_read = 0
  /\ p_idx = 1
  /\ site_idx = 1
  /\ pair_idx = 1
  /\ current_bindings_map = EmptyMap
  /\ remote_containers = [n \in GroupNames |-> ContainerId(n)]
  /\ remote_bindings = <<>>
  /\ bindings0 = remote_bindings
  /\ containers0 = DOMAIN remote_containers
  /\ calls = <<>>
  /\ out = <<>>
  /\ failures = MaxFailures
  /\ rows_seen = Some(<<>>)

\* the steps such a run can take
NextCsv ==
  \/ get_site_map
  \/ get_ngfw_prefix_containers
  \/ FileNotFound
  \/ HeaderEmpty
  \/ ReadHeader
  \/ ReadRow
  \/ EndOfRows
  \/ ContainerPresent
  \/ EndVerify
  \/ SkipSite
  \/ FetchBindings
  \/ CreateBinding

SpecCsv == InitCsv /\ [][NextCsv]_vars

\* ------------------------------------------------ notions of the claims --
Mutating(c) == c.op \in {"POST container", "POST binding", "PUT binding"}

MutatingCalls == { i \in 1..Len(calls) : Mutating(calls[i]) }

\* the CSV has been read: pending_data and target_prefixes are final
Aggregated == pc \in {"verify", "sites", "pairs", "done", "crashed"}

\* the site name is the name of a remote site
Resolves(site_name) == \E i \in 1..Len(RemoteSites) : RemoteSites[i].name = site_name

IdOfSite(site_name) ==
  RemoteSites[CHOOSE i \in 1..Len(RemoteSites) : RemoteSites[i].name = site_name].id

\* the (site, group, CIDR set) pairs of the aggregated CSV
Pairs ==
  UNION { { << pending_data[i].key, pending_data[i].value[j].key,
               pending_data[i].value[j].value >> :
            j \in 1..Len(pending_data[i].value) } : i \in 1..Len(pending_data) }

\* the bindings among `bindings` of a pair's site and group
BindingsOfPair(bindings, p) ==
  { k \in 1..Len(bindings) :
      /\ bindings[k].site_id = IdOfSite(p[1])
      /\ bindings[k].prefix_id = ContainerId(p[2]) }

\* the remote state (bindings, containers) is synced with the aggregated CSV
Synced(bindings, containers) ==
  /\ \A h \in Range(target_prefixes) : h \in containers
  /\ \A p \in Pairs :
       Resolves(p[1]) =>
         \E k \in BindingsOfPair(bindings, p) : p[3] \subseteq bindings[k].ipv4_prefixes

\* the calls of the run about a pair's binding
PairCalls(p) ==
  { i \in 1..Len(calls) :
      /\ calls[i].op \in {"POST binding", "PUT binding"}
      /\ calls[i].site_id = IdOfSite(p[1])
      /\ calls[i].name = p[2] }

\* C1: a run against a remote state that is already synced with the CSV
\* issues no mutating call.
C1_Idempotent ==
  (Aggregated /\ Synced(bindings0, containers0)) => MutatingCalls = {}

\* C2: no step of a run removes a CIDR from a remote binding, and every update
\* payload carries the fetched set united with the CSV set of the pair.
C2_NoCidrRemoved ==
  [][ /\ \A i \in 1..Len(remote_bindings) :
           /\ i <= Len(remote_bindings')
           /\ remote_bindings'[i].id = remote_bindings[i].id
           /\ remote_bindings[i].ipv4_prefixes \subseteq remote_bindings'[i].ipv4_prefixes
      /\ (calls' # calls /\ calls'[Len(calls')].op = "PUT binding") =>
           calls'[Len(calls')].payload[1].ipv4_prefixes =
             CurExisting[1].ipv4_prefixes \cup CurPair.value ]_vars

\* an update was answered OK and gave a non-empty binding CIDRs it did not hold
C2_Witness ==
  \E i \in 1..Len(bindings0) :
     /\ bindings0[i].ipv4_prefixes # {}
     /\ bindings0[i].ipv4_prefixes # remote_bindings[i].ipv4_prefixes
     /\ \E c \in 1..Len(calls) : calls[c].op = "PUT binding" /\ calls[c].status = "ok"

\* every binding that existed before the run holds at least what it held
KeepsBefore ==
  \A i \in 1..Len(bindings0) :
     /\ remote_bindings[i].id = bindings0[i].id
     /\ bindings0[i].ipv4_prefixes \subseteq remote_bindings[i].ipv4_prefixes

\* C3 as stated: after a run, every pair of the CSV whose site resolves has a
\* binding, and each of its bindings holds the CIDRs from before the run and
\* the CSV CIDRs of the pair.
C3_Original ==
  pc = "done" =>
    /\ KeepsBefore
    /\ \A p \in Pairs :
         Resolves(p[1]) =>
           /\ BindingsOfPair(remote_bindings, p) # {}
           /\ \A k \in BindingsOfPair(remote_bindings, p) :
                p[3] \subseteq remote_bindings[k].ipv4_prefixes

\* the pair needed no call, or its create / update call was answered OK
Settled(p) ==
  \/ \E i \in PairCalls(p) : calls[i].status = "ok"
  \/ \E i \in 1..Len(out) :
        out[i].msg = "up to date" /\ out[i].site = p[1] /\ out[i].subject = p[2]

\* C3 (amended): after a run every binding holds at least the CIDRs it held
\* before the run; a pair whose site resolves and whose binding was found up
\* to date, or whose create / update call was answered OK, has a binding that
\* holds all CSV CIDRs of the pair.
C3_UnionMonotone ==
  pc = "done" =>
    /\ KeepsBefore
    /\ \A p \in Pairs :
         (Resolves(p[1]) /\ Settled(p)) =>
           \E k \in BindingsOfPair(remote_bindings, p) :
              p[3] \subseteq remote_bindings[k].ipv4_prefixes

\* a run ended after an update answered OK that added a CSV CIDR to a binding
\* which held another one
C3_Witness ==
  /\ pc = "done"
  /\ \E p \in Pairs :
       /\ Resolves(p[1])
       /\ \E i \in PairCalls(p) : calls[i].op = "PUT binding" /\ calls[i].status = "ok"
       /\ \E k \in BindingsOfPair(bindings0, p) :
            /\ bindings0[k].ipv4_prefixes # {}
            /\ ~(p[3] \subseteq bindings0[k].ipv4_prefixes)
            /\ bindings0[k].ipv4_prefixes \cup p[3] = remote_bindings[k].ipv4_prefixes

\* the reserved column names, as the specification lists them
ReservedNames == {"site_name", "SDK", "serial_number", "hostname"}

\* the container step (lines 97-113) has run to its end
ContainersVerified == pc \in {"sites", "pairs", "done"}

ContainerCalls == { i \in 1..Len(calls) : calls[i].op = "POST container" }

\* the containers that exist now and did not when the run started
CreatedContainers == (DOMAIN remote_containers) \ containers0

\* the non-empty, non-reserved header names without a container at run start
WantedNames ==
  { h \in Range(all_headers) : h # "" /\ h \notin ReservedNames /\ h \notin containers0 }

\* C4 as stated: the containers created in a run are exactly the (non-reserved)
\* header names that had no container when the run started.
C4_Original == ContainersVerified => CreatedContainers = WantedNames

\* C4 (amended): create calls are issued only for non-empty, non-reserved header
\* names without a container at run start, and for every such name once the
\* container step is over; the containers created are exactly those whose call
\* was answered OK; no create is issued for a name that already has a container,
\* also when a header name is repeated.
C4_NoInventedGroups ==
  /\ { calls[i].name : i \in ContainerCalls } \subseteq WantedNames
  /\ ContainersVerified => { calls[i].name : i \in ContainerCalls } = WantedNames
  /\ CreatedContainers = { calls[i].name : i \in { j \in ContainerCalls : calls[j].status = "ok" } }
  /\ \A i, j \in ContainerCalls :
       (i < j /\ calls[i].name = calls[j].name) => calls[i].status # "ok"

\* a repeated header name whose first create failed and whose second succeeded
C4_Witness ==
  /\ pc = "done"
  /\ \E i, j \in ContainerCalls :
       /\ i < j
       /\ calls[i].name = calls[j].name
       /\ calls[i].status = "fail"
       /\ calls[j].status = "ok"

BindingCreates == { i \in 1..Len(calls) : calls[i].op = "POST binding" }

\* C5: at most one binding-create call per (site, container), none for a pair
\* that already has a binding on the remote side, and so never two bindings of
\* one site with the same prefix_id; also when the bindings-list call fails.
C5_AtMostOneBinding ==
  /\ \A i \in BindingCreates :
       ~RemoteHas(bindings0, calls[i].site_id, calls[i].payload[1].prefix_id)
  /\ \A i, j \in BindingCreates :
       (calls[i].site_id = calls[j].site_id
          /\ calls[i].payload[1].prefix_id = calls[j].payload[1].prefix_id) => i = j
  /\ \A i, j \in 1..Len(remote_bindings) :
       (remote_bindings[i].site_id = remote_bindings[j].site_id
          /\ remote_bindings[i].prefix_id = remote_bindings[j].prefix_id) => i = j

\* a tags value, an absent / null one counting as the empty list
TagsValue(tags) == IF tags = None THEN <<>> ELSE tags[1]

\* C6: an update leaves the binding's remote tags and ipv6_prefixes as they were.
C6_TagsIpv6Kept ==
  \A i \in 1..Len(bindings0) :
     /\ remote_bindings[i].ipv6_prefixes = bindings0[i].ipv6_prefixes
     /\ TagsValue(remote_bindings[i].tags) = TagsValue(bindings0[i].tags)

\* C7: a create or update answered as already existing is not reported as a
\* failure.
C7_ConflictInformational ==
  \A i \in 1..Len(out) :
     out[i].status = "conflict" => out[i].msg \notin {"FAILED Create", "FAILED Update"}

InputErrors == {"ERROR: File not found", "ERROR: CSV empty"}

\* C8: after a missing file or an absent / empty header row was reported, the
\* run has ended and has issued no mutating call; the remote state is untouched.
C8_InputErrorNoMutation ==
  (\E i \in 1..Len(out) : out[i].msg \in InputErrors) =>
     /\ pc = "done"
     /\ MutatingCalls = {}
     /\ remote_bindings = bindings0
     /\ DOMAIN remote_containers = containers0

\* an input error was reported against a remote side holding state
C8_Witness ==
  /\ \E i \in 1..Len(out) : out[i].msg \in InputErrors
  /\ bindings0 # <<>>
  /\ Len(calls) = 2

\* C9: a sites or containers listing that does not succeed is the last call of
\* the run, and the run has terminated (sys.exit on a non-OK answer, the
\* uncaught exception otherwise).
C9_ListingFatal ==
  \A i \in 1..Len(calls) :
     (calls[i].op \in {"GET sites", "GET containers"} /\ calls[i].status # "ok") =>
        /\ i = Len(calls)
        /\ pc = (IF calls[i].status = "fail" THEN "exited" ELSE "crashed")

\* the containers listing failed after the sites listing had succeeded
C9_Witness ==
  /\ pc = "exited"
  /\ Len(calls) = 2
  /\ calls[2].status = "fail"
  /\ bindings0 # <<>>

\* the entries of pending_data whose site name resolves, in its order
ResolvedSites == SelectSeq(pending_data, LAMBDA e : Resolves(e.key))

\* the bindings-list calls of the run, in call order
Fetches == SelectSeq(calls, LAMBDA c : c.op = "GET bindings")

\* the bindings-list calls so far are those of the first resolving sites, in order
FetchesFollowSites ==
  \A i \in 1..Len(Fetches) :
     i <= Len(ResolvedSites) /\ Fetches[i].site_id = IdOfSite(ResolvedSites[i].key)

\* C10: no bindings-list, create or update call is issued for a site name that
\* does not resolve, and every resolving site of the CSV is still processed:
\* its bindings are listed once and each of its pairs with a container is
\* found up to date or gets its create / update call.
C10_MissingSiteSkip ==
  /\ FetchesFollowSites
  /\ \A i \in 1..Len(calls) :
       calls[i].op \in {"POST binding", "PUT binding"} =>
          \E k \in 1..Len(ResolvedSites) :
             calls[i].site_id = IdOfSite(ResolvedSites[k].key)
  /\ pc = "done" =>
       /\ Len(Fetches) = Len(ResolvedSites)
       /\ \A p \in Pairs :
            (Resolves(p[1]) /\ p[2] \in DOMAIN container_map) =>
               \/ PairCalls(p) # {}
               \/ \E i \in 1..Len(out) :
                     out[i].msg = "up to date" /\ out[i].site = p[1] /\ out[i].subject = p[2]

\* a run ended in which an unknown site came first and a known one after it
\* got its binding created
C10_Witness ==
  /\ pc = "done"
  /\ Len(pending_data) = 2
  /\ ~Resolves(pending_data[1].key)
  /\ Resolves(pending_data[2].key)
  /\ \E i \in 1..Len(calls) :
        /\ calls[i].op = "POST binding"
        /\ calls[i].status = "ok"
        /\ calls[i].site_id = IdOfSite(pending_data[2].key)

\* ------------------------------------------------------------- C11 -------
RowsSeen == rows_seen[1]

\* a cell without text: empty, or whitespace only
IsBlank(cell) == \A i \in 1..Len(cell) : cell[i] = " "

\* the text of a non-blank cell: from its first to its last non-whitespace token
Trimmed(cell) ==
  LET text == { i \in 1..Len(cell) : cell[i] # " " }
      lo   == CHOOSE i \in text : \A j \in text : i <= j
      hi   == CHOOSE i \in text : \A j \in text : j <= i
  IN  SubSeq(cell, lo, hi)

\* the trimmed non-blank cells of column h over the recorded rows of a site
ExpectedCidrs(site, h) ==
  { Trimmed(RowsSeen[r][h]) :
      r \in { q \in 1..Len(RowsSeen) :
                RowsSeen[q]["site_name"] = site /\ ~IsBlank(RowsSeen[q][h]) } }

\* the aggregated set of a (site, group) pair, None without an entry
AggregatedCidrs(site, h) ==
  IF site \in Keys(pending_data) /\ h \in Keys(Lookup(pending_data, site))
  THEN Some(Lookup(Lookup(pending_data, site), h))
  ELSE None

\* C11: after any sequence of rows, the aggregated set of a (site, group) pair
\* is exactly the set of trimmed values of the non-blank cells of the group's
\* column over the rows of that site; blank and whitespace-only cells and rows
\* with a blank site name contribute nothing; a site (or pair) without such a
\* cell has no entry, and no call is issued for a site without an entry.
C11_Aggregation ==
  rows_seen # None =>
    /\ \A site \in SiteCells, h \in Range(target_prefixes) :
         AggregatedCidrs(site, h) =
           IF site = "" \/ ExpectedCidrs(site, h) = {} THEN None
           ELSE Some(ExpectedCidrs(site, h))
    /\ \A site \in Keys(pending_data) :
         /\ site \in SiteCells \ {""}
         /\ Keys(Lookup(pending_data, site)) \subseteq Range(target_prefixes)
         /\ \E h \in Range(target_prefixes) : ExpectedCidrs(site, h) # {}
    /\ \A i \in 1..Len(calls) :
         calls[i].site_id # "" =>
            \E site \in Keys(pending_data) :
               Resolves(site) /\ IdOfSite(site) = calls[i].site_id

\* a run ended whose two rows of one site gave one group a padded and a plain
\* CIDR and gave another group only blank cells
C11_Witness ==
  /\ pc = "done"
  /\ rows_seen # None
  /\ Len(RowsSeen) = 2
  /\ Len(target_prefixes) = 2
  /\ target_prefixes[1] # target_prefixes[2]
  /\ RowsSeen[1]["site_name"] = "Boston"
  /\ RowsSeen[2]["site_name"] = "Boston"
  /\ RowsSeen[1][target_prefixes[1]] = <<" ", CidrA, " ">>
  /\ RowsSeen[2][target_prefixes[1]] = <<CidrB>>
  /\ RowsSeen[1][target_prefixes[2]] = <<" ">>
  /\ RowsSeen[2][target_prefixes[2]] = <<>>
  /\ AggregatedCidrs("Boston", target_prefixes[1]) = Some({<<CidrA>>, <<CidrB>>})
  /\ AggregatedCidrs("Boston", target_prefixes[2]) = None
  /\ \E i \in 1..Len(calls) : calls[i].op = "POST binding"

\* ------------------------------------------------------------- C12 -------
BindingOps == {"GET bindings", "POST binding", "PUT binding"}

\* every container-create call of the run precedes every binding call
ContainersFirst ==
  \A i, j \in 1..Len(calls) :
     (calls[i].op = "POST container" /\ calls[j].op \in BindingOps) => i < j

\* the container-create calls issued for a name
CreatesOf(h) == { i \in ContainerCalls : calls[i].name = h }

\* the positions of a name in the header's group names
Occurrences(h) == { k \in 1..Len(target_prefixes) : target_prefixes[k] = h }

\* the group names of the header without a container when the run started
AbsentNames == Range(target_prefixes) \ containers0

\* C12 as stated: container creates precede all binding calls, and a header
\* group name absent from the remote container map gets exactly one create call.
C12_Original ==
  /\ ContainersFirst
  /\ ContainersVerified =>
       \A h \in AbsentNames : Cardinality(CreatesOf(h)) = 1

\* C12 (amended): container creates precede all binding calls; a header group
\* name that has a container gets no create call; an absent one gets a create
\* call at its first occurrence in the header row and a further one at a later
\* occurrence only after every earlier call for it was answered non-OK, so
\* exactly one when the name occurs once or its first call is answered OK.
C12_ContainersFirst ==
  /\ ContainersFirst
  /\ \A h \in Range(target_prefixes) :
       /\ Cardinality(CreatesOf(h)) <= Cardinality(Occurrences(h))
       /\ h \in containers0 => CreatesOf(h) = {}
       /\ \A i, j \in CreatesOf(h) : i < j => calls[i].status = "fail"
  /\ ContainersVerified =>
       \A h \in AbsentNames :
          /\ CreatesOf(h) # {}
          /\ \/ Cardinality(CreatesOf(h)) = Cardinality(Occurrences(h))
             \/ \E i \in CreatesOf(h) : calls[i].status = "ok"
          /\ (\/ Cardinality(Occurrences(h)) = 1
              \/ \A i \in CreatesOf(h) : calls[i].status = "ok")
               => Cardinality(CreatesOf(h)) = 1

\* a run ended in which a container was created by the only call for its name
\* and a binding of it was created afterwards
C12_Witness ==
  /\ pc = "done"
  /\ \E i \in ContainerCalls :
       /\ calls[i].status = "ok"
       /\ CreatesOf(calls[i].name) = {i}
       /\ \E j \in 1..Len(calls) :
            /\ calls[j].op = "POST binding"
            /\ calls[j].name = calls[i].name
            /\ calls[j].status = "ok"

\* ------------------------------------------------------------- C13 -------
\* the listing calls and the three mutating calls
ReadOps == {"GET sites", "GET containers", "GET bindings"}
WriteOps == {"POST container", "POST binding", "PUT binding"}

OkCalls(op) == { i \in 1..Len(calls) : calls[i].op = op /\ calls[i].status = "ok" }

\* C13: a run issues listing calls and, as its only mutating calls, container
\* creates, binding creates and binding updates: no call writes or deletes a
\* site, and no container or binding of the remote side is deleted (every one
\* that existed before the run is still there, and the new ones are those of
\* the creates answered OK).
C13_NothingDeleted ==
  /\ \A i \in 1..Len(calls) :
       /\ calls[i].op \in ReadOps \cup WriteOps
       /\ calls[i].op \in WriteOps <=> Mutating(calls[i])
  /\ \A n \in containers0 :
       n \in DOMAIN remote_containers /\ remote_containers[n] = ContainerId(n)
  /\ Cardinality(DOMAIN remote_containers) =
       Cardinality(containers0) + Cardinality(OkCalls("POST container"))
  /\ Len(remote_bindings) = Len(bindings0) + Cardinality(OkCalls("POST binding"))
  /\ \A k \in 1..Len(bindings0) :
       /\ remote_bindings[k].id = bindings0[k].id
       /\ remote_bindings[k].site_id = bindings0[k].site_id
       /\ remote_bindings[k].prefix_id = bindings0[k].prefix_id

\* a run ended that created a container, created a binding and updated the
\* binding the remote side held
C13_Witness ==
  /\ pc = "done"
  /\ bindings0 # <<>>
  /\ containers0 # {}
  /\ OkCalls("POST container") # {}
  /\ OkCalls("POST binding") # {}
  /\ OkCalls("PUT binding") # {}

\* ------------------------------------------------------------- C14 -------
\* the bindings-list calls of the run for a site
FetchesOf(site_id) ==
  { i \in 1..Len(calls) : calls[i].op = "GET bindings" /\ calls[i].site_id = site_id }

\* the bindings the run fetched for a pair: those the remote side held for it,
\* when the site's bindings-list call was answered OK
FetchedFor(p) ==
  IF \E i \in FetchesOf(IdOfSite(p[1])) : calls[i].status = "ok"
  THEN BindingsOfPair(bindings0, p)
  ELSE {}

UpToDateLine(p) ==
  \E i \in 1..Len(out) :
     out[i].msg = "up to date" /\ out[i].site = p[1] /\ out[i].subject = p[2]

\* C14: a site's bindings are fetched once; a pair never gets more than one
\* create / update call; after a run, a pair whose site id and container id
\* resolve got (a) one update with the union of the fetched and the CSV CIDRs
\* when a fetched binding lacks a CSV CIDR, (b) no call and "up to date" when
\* a fetched binding holds them all, (c) one create with exactly the CSV
\* CIDRs, no ipv6_prefixes and no tags when no binding was fetched.
C14_Decision ==
  /\ \A id \in SiteIds : Cardinality(FetchesOf(id)) <= 1
  /\ \A p \in Pairs : Resolves(p[1]) => Cardinality(PairCalls(p)) <= 1
  /\ pc = "done" =>
       \A p \in Pairs :
          (Resolves(p[1]) /\ p[2] \in DOMAIN container_map) =>
             /\ Cardinality(FetchesOf(IdOfSite(p[1]))) = 1
             /\ IF FetchedFor(p) = {}
                THEN /\ ~UpToDateLine(p)
                     /\ \E i \in PairCalls(p) :
                          /\ calls[i].op = "POST binding"
                          /\ calls[i].payload[1].prefix_id = container_map[p[2]]
                          /\ calls[i].payload[1].ipv4_prefixes = p[3]
                          /\ calls[i].payload[1].ipv6_prefixes = {}
                          /\ calls[i].payload[1].tags = <<>>
                ELSE \A k \in FetchedFor(p) :
                       IF p[3] \subseteq bindings0[k].ipv4_prefixes
                       THEN PairCalls(p) = {} /\ UpToDateLine(p)
                       ELSE /\ ~UpToDateLine(p)
                            /\ \E i \in PairCalls(p) :
                                 /\ calls[i].op = "PUT binding"
                                 /\ calls[i].binding_id = bindings0[k].id
                                 /\ calls[i].payload[1].ipv4_prefixes =
                                      bindings0[k].ipv4_prefixes \cup p[3]

\* a run ended in which one pair of a site got its update with the union and
\* another pair of the same site got its create
C14_Witness ==
  /\ pc = "done"
  /\ \E p, q \in Pairs :
       /\ p[1] = q[1]
       /\ Resolves(p[1])
       /\ FetchedFor(p) # {}
       /\ FetchedFor(q) = {}
       /\ \E i \in PairCalls(p) : calls[i].op = "PUT binding" /\ calls[i].status = "ok"
       /\ \E j \in PairCalls(q) : calls[j].op = "POST binding" /\ calls[j].status = "ok"

\* ------------------------------------------------------------- C15 -------
\* the container-create calls that were not answered OK
FailedCreates == { i \in ContainerCalls : calls[i].status # "ok" }

ErrorLine(p) ==
  \E i \in 1..Len(out) :
     out[i].msg = "ERROR: ID not found" /\ out[i].site = p[1] /\ out[i].subject = p[2]

\* C15: after a failed container create the run does not crash, the name stays
\* out of the container map and gets no binding create / update call, and in
\* the finished run every pair of a resolving site with that name has its
\* error reported while every other pair was found up to date or got its call.
C15_FailureContained ==
  \A i \in FailedCreates :
     /\ pc # "crashed"
     /\ calls[i].name \notin DOMAIN container_map
     /\ \A j \in 1..Len(calls) :
          calls[j].op \in {"POST binding", "PUT binding"} => calls[j].name # calls[i].name
     /\ pc = "done" =>
          \A p \in Pairs :
             Resolves(p[1]) =>
                IF p[2] = calls[i].name
                THEN ErrorLine(p)
                ELSE p[2] \in DOMAIN container_map =>
                       (PairCalls(p) # {} \/ UpToDateLine(p))

\* ------------------------------------------------------------- C16 -------
\* the calls of the binding loop that were not answered OK
LoopFailures == { i \in 1..Len(calls) : calls[i].op \in BindingOps /\ calls[i].status # "ok" }

\* C16: once the binding loop has issued a call the run neither crashes nor
\* exits: while it is in the loop it has a next step, and when it has ended,
\* every pair with resolved site and container was found up to date or got its
\* create / update call, whichever bindings-list, create and update calls
\* failed; no call of the loop is issued again after it failed.
C16_FailureIsolation ==
  /\ (\E i \in 1..Len(calls) : calls[i].op \in BindingOps) =>
        /\ pc \in {"sites", "pairs", "done"}
        /\ pc # "done" => ENABLED Next
  /\ \A i \in LoopFailures : \A j \in 1..Len(calls) :
        (i < j /\ calls[j].op = calls[i].op /\ calls[j].site_id = calls[i].site_id)
           => calls[j].name # calls[i].name
  /\ pc = "done" =>
        \A p \in Pairs :
           (Resolves(p[1]) /\ p[2] \in DOMAIN container_map) =>
              \/ UpToDateLine(p)
              \/ PairCalls(p) # {}

\* a run ended in which a bindings-list call failed, a later create raised an
\* exception and a pair after that got its call answered OK
C16_Witness ==
  /\ pc = "done"
  /\ \E i, j, k \in 1..Len(calls) :
       /\ i < j /\ j < k
       /\ calls[i].op = "GET bindings" /\ calls[i].status # "ok"
       /\ calls[j].op = "POST binding" /\ calls[j].status = "exc"
       /\ calls[k].op \in {"POST binding", "PUT binding"} /\ calls[k].status = "ok"

\* ------------------------------------------------------------- C17 -------
BindingUpdates == { i \in 1..Len(calls) : calls[i].op = "PUT binding" }

\* the bindings the remote side held at the call's site under the call's id
TargetsOf(c) ==
  { k \in 1..Len(bindings0) :
      bindings0[k].site_id = c.site_id /\ bindings0[k].id = c.binding_id }

\* C17: every binding update targets, at its site, the id of a binding the
\* remote side held there and the run fetched; its payload carries that id,
\* the binding's prefix_id, and the binding's _etag and _schema: the fetched
\* values when present, none when absent.
C17_UpdateEchoes ==
  \A i \in BindingUpdates :
     /\ \E j \in FetchesOf(calls[i].site_id) : j < i /\ calls[j].status = "ok"
     /\ TargetsOf(calls[i]) # {}
     /\ \A k \in TargetsOf(calls[i]) :
          /\ calls[i].payload[1].id = Some(bindings0[k].id)
          /\ calls[i].payload[1].prefix_id = bindings0[k].prefix_id
          /\ calls[i].payload[1].etag = bindings0[k].etag
          /\ calls[i].payload[1].schema = bindings0[k].schema

\* an update was issued for a binding with an _etag and without a _schema
C17_Witness ==
  \E i \in BindingUpdates :
     \E k \in TargetsOf(calls[i]) :
        /\ bindings0[k].etag # None
        /\ bindings0[k].schema = None
        /\ calls[i].payload[1].etag = bindings0[k].etag
        /\ calls[i].payload[1].schema = None

====
